---- MODULE Spec2Model ----
(***************************************************************************)
(* Encar vehicle actor: the bounded-concurrency batch dispatcher of        *)
(* main.py (_process_vehicle_ids and its worker coroutine), the input      *)
(* clamp _parse_max_concurrency, the OUTPUT record built by main, and of   *)
(* parser.py the embedded-state extractor extract_preloaded_state, the     *)
(* validator validate_state, the normalizer build_output with              *)
(* format_engine, and parse_vehicle.                                       *)
(*                                                                         *)
(* Python's None is the empty tuple <<>>, an Optional value v is <<v>>,    *)
(* and a queued task is the pair <<order_idx, vehicle_id>>, so that the    *)
(* sentinel None and a task are comparable values.                         *)
(***************************************************************************)
EXTENDS Integers, Sequences, FiniteSets, TLC

\* ------------------------------------------------------------------------
\* Bounds of the model
\* ------------------------------------------------------------------------
\* Longest vehicleIds list of a batch.
MaxIds == 5

\* Largest magnitude of a numeric maxConcurrency value given to
\* _parse_max_concurrency on its own.
MaxRawInt == 12

\* Largest store_limit given to a batch, besides None.
MaxStoreLimit == 2

\* ------------------------------------------------------------------------
\* Program constants
\* ------------------------------------------------------------------------
\* main.py:41,46  value = 3
DefaultConcurrency == 3

\* main.py:48  max(1, ...)
MinConcurrency == 1

\* main.py:48  min(value, 10)
MaxConcurrency == 10

\* main.py:100  processed - last_status >= 5
StatusEvery == 5

None == <<>>

Min(a, b) == IF a <= b THEN a ELSE b

Max(a, b) == IF a >= b THEN a ELSE b

VARIABLES
    payload,            \* payload.get("maxConcurrency"), a raw JSON value
    parse_result,       \* what _parse_max_concurrency(payload) did
    vehicle_ids,        \* the input list (1-based here; order_idx is position - 1)
    max_concurrency,    \* the argument of _process_vehicle_ids
    store_limit,        \* None or <<limit>>
    push_to_dataset,    \* BOOLEAN
    outcome,            \* order_idx -> what the task's calls do (the environment)
    queue,              \* asyncio.Queue contents, head first
    unfinished,         \* asyncio.Queue._unfinished_tasks
    results,            \* list of <<order_idx, item>> in completion order
    failures,           \* list of <<vehicle_id, str(exc)>> in completion order
    success_count,
    processed,
    last_status,
    wpc,                \* worker_idx -> where the worker coroutine is suspended
    cur,                \* worker_idx -> the task it holds, or None
    runs,               \* order_idx -> number of parse_vehicle calls started for it
    main_pc,            \* where _process_vehicle_ids is: "join", "gather", ...
    ordered_results,    \* the first component of the returned tuple
    html_path,          \* None or <<path>>, the local-file override
    sessions,           \* worker_idx -> None or <<session>>: the sessions list
    output,             \* the OUTPUT record main stores, None before
    page,               \* the elements the page text is made of
    html,               \* the page text given to extract_preloaded_state
    extract_result,     \* what extract_preloaded_state(html) did
    extracted,          \* what parse_vehicle's lines 407-412 came to
    validate_result,    \* what validate_state(state) did
    vehicle_result,     \* what parse_vehicle did
    spec_in,            \* the spec object build_output normalizes
    engine_result,      \* what format_engine(spec.get("displacement")) did
    specifications_result   \* the specifications build_output made of it

concVars == <<payload, parse_result>>

dispVars == <<vehicle_ids, max_concurrency, store_limit,
              push_to_dataset, outcome, queue, unfinished, results, failures,
              success_count, processed, last_status, wpc, cur, runs, main_pc,
              ordered_results, html_path, sessions>>

outVars == <<output>>

extVars == <<page, html, extract_result>>

valVars == <<extracted, validate_result, vehicle_result>>

engVars == <<spec_in, engine_result, specifications_result>>

vars == <<concVars, dispVars, outVars, extVars, valVars, engVars>>

\* ------------------------------------------------------------------------
\* main.py:38-48  _parse_max_concurrency
\* ------------------------------------------------------------------------
\* A raw JSON value is [kind, v]: "none" (key missing or null), "int" v,
\* "bool" v (0 or 1), "float" of v tenths, "nan", "inf" of sign v,
\* "str_int" (a string spelling the integer v), "str_other" (any other
\* string), "list" (an array or object).
Raw(kind, v) == [kind |-> kind, v |-> v]

\* The outcome of a call: [exc |-> "", v |-> n] when it returns n, else the
\* exception it raises.  NotCalled stands for a call not made yet.
NotCalled == [exc |-> "not_called", v |-> 0]

Returned(n) == [exc |-> "", v |-> n]

Raised(exc) == [exc |-> exc, v |-> 0]

\* Python's int(x)
PyInt(x) ==
    CASE x.kind = "int" -> Returned(x.v)
      [] x.kind = "bool" -> Returned(x.v)
      [] x.kind = "float" -> \* truncation toward zero
            Returned(IF x.v >= 0 THEN x.v \div 10 ELSE 0 - ((0 - x.v) \div 10))
      [] x.kind = "nan" -> Raised("ValueError")
      [] x.kind = "inf" -> Raised("OverflowError")
      [] x.kind = "str_int" -> Returned(x.v)
      [] x.kind = "str_other" -> Raised("ValueError")
      [] OTHER -> Raised("TypeError")

\* main.py:48  max(1, min(value, 10))
ClampConcurrency(value) == Max(MinConcurrency, Min(value, MaxConcurrency))

\* main.py:38-48; an exception other than TypeError and ValueError escapes
_parse_max_concurrency(raw_value) ==
    IF raw_value.kind = "none"
    THEN Returned(ClampConcurrency(DefaultConcurrency))
    ELSE LET converted == PyInt(raw_value) IN
         IF converted.exc = ""
         THEN Returned(ClampConcurrency(converted.v))
         ELSE IF converted.exc \in {"TypeError", "ValueError"}
         THEN Returned(ClampConcurrency(DefaultConcurrency))
         ELSE Raised(converted.exc)

\* ------------------------------------------------------------------------
\* main.py:51-117  _process_vehicle_ids
\* ------------------------------------------------------------------------
total == Len(vehicle_ids)

\* worker_count without the cap by the number of ids.
worker_count_uncapped == max_concurrency

worker_count == Min(max_concurrency, total)

Workers == DOMAIN wpc

\* The identifier at input position i of a batch of n (distinct identifiers,
\* deliberately not in the order of their positions).
VehicleId(i, n) == 100 + (n - i)

\* What the environment does with one task: parse_vehicle returns and the
\* push (if any) returns; parse_vehicle raises; parse_vehicle returns and
\* Actor.push_data raises.
Outcomes(push) == IF push THEN {"ok", "parse_fail", "push_fail"}
                          ELSE {"ok", "parse_fail"}

\* main.py:97  str(exc) for the exception the named call raised
ErrorText(call) == <<"error raised by", call>>

\* The record parse_vehicle returns for a vehicle id.
ItemOf(vehicle_id) == [data |-> vehicle_id]

\* The task loop nested inside the sentinel loop: every task is queued once
\* per worker.
InitialQueuePerWorker(ids, nworkers) ==
    [i \in 1..(Len(ids) * nworkers + nworkers) |->
        IF i <= Len(ids) * nworkers
        THEN <<(i - 1) % Len(ids), ids[((i - 1) % Len(ids)) + 1]>>
        ELSE None]

\* main.py:63-67  the queue after the two put_nowait loops
InitialQueue(ids, nworkers) ==
    [i \in 1..(Len(ids) + nworkers) |->
        IF i <= Len(ids) THEN <<i - 1, ids[i]>> ELSE None]

\* main.py:115  sorted(results, key=lambda pair: pair[0]), a stable sort
RECURSIVE InsertByIdx(_, _)
InsertByIdx(pair, sorted) ==
    IF sorted = <<>> THEN <<pair>>
    ELSE IF pair[1] < Head(sorted)[1] THEN <<pair>> \o sorted
    ELSE <<Head(sorted)>> \o InsertByIdx(pair, Tail(sorted))

RECURSIVE SortedByIdx(_)
SortedByIdx(pairs) ==
    IF pairs = <<>> THEN <<>>
    ELSE InsertByIdx(pairs[Len(pairs)], SortedByIdx(SubSeq(pairs, 1, Len(pairs) - 1)))

\* The items in completion order, the sort left out.
CompletionOrder(pairs) == [k \in 1..Len(pairs) |-> pairs[k][2]]

\* main.py:115  [item for _, item in sorted(...)]
OrderedResults(pairs) ==
    LET s == SortedByIdx(pairs) IN [k \in 1..Len(s) |-> s[k][2]]

\* The cap test off by one upwards (<=) and downwards (len + 1 <).
MayStoreOneMore(res) == store_limit = None \/ Len(res) <= store_limit[1]

MayStoreOneLess(res) == store_limit = None \/ Len(res) + 1 < store_limit[1]

\* main.py:92  store_limit is None or len(results) < store_limit
MayStore(res) == store_limit = None \/ Len(res) < store_limit[1]

\* parser.py:125-132  build_session(): a client not closed and not used yet
NewSession == [closed |-> 0, users |-> {}]

\* Every worker taking the first entry of the list.
SessionShared(worker_idx) == 0

\* main.py:79  session = sessions[worker_idx]: the entry the worker takes
SessionOf(worker_idx) == worker_idx

\* main.py:88-90  parse_vehicle(..., session=session) fetches the page with
\* the worker's session (parser.py:139-145) when it has one
UseSession(w) ==
    IF sessions[SessionOf(w)] = None THEN sessions
    ELSE [sessions EXCEPT ![SessionOf(w)] =
             <<[@[1] EXCEPT !.users = @ \cup {w}]>>]

\* main.py:106-108  if session is not None: session.close()
CloseSession(w) ==
    IF sessions[SessionOf(w)] = None THEN sessions
    ELSE [sessions EXCEPT ![SessionOf(w)] =
             <<[@[1] EXCEPT !.closed = @ + 1]>>]

\* main.py:81-86  the top of the worker loop.  queue.get() does not suspend
\* while the queue is non-empty, so the dequeue belongs to the block that
\* reaches it; unf is the unfinished count that block leaves behind.
LoopTop(w, unf) ==
    IF queue = <<>>
    THEN /\ wpc' = [wpc EXCEPT ![w] = "get"]
         /\ cur' = [cur EXCEPT ![w] = None]
         /\ unfinished' = unf
         /\ UNCHANGED <<queue, runs, sessions>>
    ELSE LET queued == Head(queue) IN
         /\ queue' = Tail(queue)
         /\ IF queued = None
            THEN \* task_done(); break; finally: session.close()
                 /\ unfinished' = unf - 1
                 /\ wpc' = [wpc EXCEPT ![w] = "exited"]
                 /\ cur' = [cur EXCEPT ![w] = None]
                 /\ runs' = runs
                 /\ sessions' = CloseSession(w)
            ELSE \* asyncio.to_thread(parse_vehicle, ...) suspends the worker
                 /\ unfinished' = unf
                 /\ wpc' = [wpc EXCEPT ![w] = "parse"]
                 /\ cur' = [cur EXCEPT ![w] = queued]
                 /\ runs' = [runs EXCEPT ![queued[1]] = @ + 1]
                 /\ sessions' = UseSession(w)

\* main.py:98-105  the inner finally and the return to the loop top
Finally(w) ==
    /\ processed' = processed + 1
    /\ IF push_to_dataset /\ (processed + 1) - last_status >= StatusEvery
       THEN \* await update_fn(...) suspends the worker
            /\ last_status' = processed + 1
            /\ wpc' = [wpc EXCEPT ![w] = "status"]
            /\ UNCHANGED <<queue, unfinished, cur, runs, sessions>>
       ELSE /\ last_status' = last_status
            /\ LoopTop(w, unfinished - 1)

\* main.py:110  the worker task runs from its start to the first suspension
WorkerStart(w) ==
    /\ main_pc = "join"
    /\ wpc[w] = "start"
    /\ LoopTop(w, unfinished)
    /\ UNCHANGED <<concVars, outVars, extVars, valVars, engVars, html_path,
                   vehicle_ids, max_concurrency, store_limit,
                   push_to_dataset, outcome, results, failures, success_count,
                   processed, last_status, main_pc, ordered_results>>

\* main.py:88-95  parse_vehicle returns
ParseReturns(w) ==
    /\ wpc[w] = "parse"
    /\ outcome[cur[w][1]] # "parse_fail"
    /\ success_count' = success_count + 1
    /\ results' = IF MayStore(results)
                  THEN Append(results, <<cur[w][1], ItemOf(cur[w][2])>>)
                  ELSE results
    /\ IF push_to_dataset
       THEN \* await Actor.push_data(result) suspends the worker
            /\ wpc' = [wpc EXCEPT ![w] = "push"]
            /\ UNCHANGED <<queue, unfinished, cur, runs, processed, last_status,
                           sessions>>
       ELSE Finally(w)
    /\ UNCHANGED <<concVars, outVars, extVars, valVars, engVars, html_path,
                   vehicle_ids, max_concurrency, store_limit,
                   push_to_dataset, outcome, failures, main_pc, ordered_results>>

\* main.py:88-90,96-97  parse_vehicle raises
ParseRaises(w) ==
    /\ wpc[w] = "parse"
    /\ outcome[cur[w][1]] = "parse_fail"
    /\ failures' = Append(failures, <<cur[w][2], ErrorText("parse_vehicle")>>)
    /\ Finally(w)
    /\ UNCHANGED <<concVars, outVars, extVars, valVars, engVars, html_path,
                   vehicle_ids, max_concurrency, store_limit,
                   push_to_dataset, outcome, results, success_count, main_pc,
                   ordered_results>>

\* main.py:95-97  Actor.push_data returns, or raises into the except clause
PushDone(w) ==
    /\ wpc[w] = "push"
    /\ failures' = IF outcome[cur[w][1]] = "push_fail"
                   THEN Append(failures, <<cur[w][2], ErrorText("push_data")>>)
                   ELSE failures
    /\ Finally(w)
    /\ UNCHANGED <<concVars, outVars, extVars, valVars, engVars, html_path,
                   vehicle_ids, max_concurrency, store_limit,
                   push_to_dataset, outcome, results, success_count, main_pc,
                   ordered_results>>

\* main.py:104-105  update_fn returns: task_done() and back to the loop top
StatusReturns(w) ==
    /\ wpc[w] = "status"
    /\ LoopTop(w, unfinished - 1)
    /\ UNCHANGED <<concVars, outVars, extVars, valVars, engVars, html_path,
                   vehicle_ids, max_concurrency, store_limit,
                   push_to_dataset, outcome, results, failures, success_count,
                   processed, last_status, main_pc, ordered_results>>

\* main.py:104,106-108  update_fn raises inside the finally clause: the
\* exception leaves the loop past task_done(), the outer finally closes the
\* session and the worker task ends with the exception.
StatusRaises(w) ==
    /\ wpc[w] = "status"
    /\ wpc' = [wpc EXCEPT ![w] = "crashed"]
    /\ sessions' = CloseSession(w)
    /\ UNCHANGED <<concVars, outVars, extVars, valVars, engVars, html_path,
                   vehicle_ids, max_concurrency, store_limit,
                   push_to_dataset, outcome, queue, unfinished, results, failures,
                   success_count, processed, last_status, cur, runs, main_pc,
                   ordered_results>>

\* main.py:111  await queue.join() returns once every put has its task_done
JoinReturns ==
    /\ main_pc = "join"
    /\ unfinished = 0
    /\ main_pc' = "gather"
    /\ UNCHANGED <<concVars, outVars, extVars, valVars, engVars, html_path,
                   vehicle_ids, max_concurrency, store_limit,
                   push_to_dataset, outcome, queue, unfinished, results, failures,
                   success_count, processed, last_status, wpc, cur, runs,
                   ordered_results, sessions>>

\* main.py:112-117  gather returns once every worker task has ended (raising
\* the exception of a worker that ended with one); then sort and return
GatherReturns ==
    /\ main_pc = "gather"
    /\ \A w \in Workers : wpc[w] \in {"exited", "crashed"}
    /\ IF \E w \in Workers : wpc[w] = "crashed"
       THEN /\ main_pc' = "raised"
            /\ ordered_results' = ordered_results
       ELSE /\ main_pc' = "returned"
            /\ ordered_results' = OrderedResults(results)
    /\ UNCHANGED <<concVars, outVars, extVars, valVars, engVars, html_path,
                   vehicle_ids, max_concurrency, store_limit,
                   push_to_dataset, outcome, queue, unfinished, results, failures,
                   success_count, processed, last_status, wpc, cur, runs, sessions>>

\* main has stored no OUTPUT; no page is being extracted.
OutIdle == output = None

ExtIdle == page = <<>> /\ html = <<>> /\ extract_result = NotCalled

\* No state is being validated.
ValIdle ==
    /\ extracted = NotCalled /\ validate_result = NotCalled
    /\ vehicle_result = NotCalled

\* No specifications are being built.
EngIdle ==
    /\ spec_in = None /\ engine_result = NotCalled
    /\ specifications_result = NotCalled

\* Caller-supplied maxConcurrency values of a batch.
BatchConcurrency == {Raw("int", v) : v \in {0, 1, 2}}

StoreLimits == {None} \cup {<<l>> : l \in 1..MaxStoreLimit}

\* The html_path and push_to_dataset of a batch: the override path is None
\* or a non-empty path, given to batches that push nothing.
RunModes ==
    {[html_path |-> None, push |-> TRUE], [html_path |-> None, push |-> FALSE],
     [html_path |-> <<"sample.html">>, push |-> FALSE]}

\* main.py:75  `if html_path`: the path is neither None nor empty
HasOverride(path) == path # None /\ path[1] # ""

\* main.py:75  sessions = [None if html_path else build_session() for ...]
NewSessions(path, nworkers) ==
    [w \in 0..(nworkers - 1) |-> IF HasOverride(path) THEN None ELSE <<NewSession>>]

\* main.py:61-75,110  the state when _process_vehicle_ids first suspends, at
\* queue.join(): queue filled, counters zero, worker tasks created
Init ==
    \E n \in 1..MaxIds, raw \in BatchConcurrency, lim \in StoreLimits, mode \in RunModes :
        /\ payload = raw
        /\ parse_result = _parse_max_concurrency(raw)
        /\ max_concurrency = parse_result.v
        /\ vehicle_ids = [i \in 1..n |-> VehicleId(i, n)]
        /\ store_limit = lim
        /\ push_to_dataset = mode.push
        /\ html_path = mode.html_path
        /\ outcome \in [0..(n - 1) -> Outcomes(mode.push)]
        /\ sessions = NewSessions(html_path, worker_count)
        /\ queue = InitialQueue(vehicle_ids, worker_count)
        /\ unfinished = Len(queue)
        /\ results = <<>>
        /\ failures = <<>>
        /\ success_count = 0
        /\ processed = 0
        /\ last_status = 0
        /\ wpc = [w \in 0..(worker_count - 1) |-> "start"]
        /\ cur = [w \in 0..(worker_count - 1) |-> None]
        /\ runs = [i \in 0..(n - 1) |-> 0]
        /\ main_pc = "join"
        /\ ordered_results = <<>>
        /\ OutIdle
        /\ ExtIdle
        /\ ValIdle
        /\ EngIdle

Next ==
    \/ \E w \in Workers : WorkerStart(w)
    \/ \E w \in Workers : ParseReturns(w)
    \/ \E w \in Workers : ParseRaises(w)
    \/ \E w \in Workers : PushDone(w)
    \/ \E w \in Workers : StatusReturns(w)
    \/ \E w \in Workers : StatusRaises(w)
    \/ JoinReturns
    \/ GatherReturns

Spec == Init /\ [][Next]_vars

\* ------------------------------------------------------------------------
\* _parse_max_concurrency on its own: any JSON value, then the call
\* ------------------------------------------------------------------------
RawInts == (0 - MaxRawInt)..MaxRawInt

RawValues ==
    {Raw("none", 0), Raw("nan", 0), Raw("inf", 1), Raw("inf", 0 - 1),
     Raw("str_other", 0), Raw("list", 0), Raw("bool", 0), Raw("bool", 1)}
    \cup {Raw("int", v) : v \in RawInts}
    \cup {Raw("str_int", v) : v \in RawInts}
    \cup {Raw("float", 5 * k) : k \in (0 - 2 * MaxRawInt)..(2 * MaxRawInt)}

\* No batch is running.
DispIdle ==
    /\ vehicle_ids = <<>> /\ max_concurrency = 0 /\ store_limit = None
    /\ push_to_dataset = FALSE /\ outcome = <<>> /\ queue = <<>>
    /\ unfinished = 0 /\ results = <<>> /\ failures = <<>>
    /\ success_count = 0 /\ processed = 0 /\ last_status = 0
    /\ wpc = <<>> /\ cur = <<>> /\ runs = <<>> /\ main_pc = "idle"
    /\ ordered_results = <<>> /\ html_path = None /\ sessions = <<>>

InitConc ==
    /\ payload \in RawValues
    /\ parse_result = NotCalled
    /\ DispIdle
    /\ OutIdle
    /\ ExtIdle
    /\ ValIdle
    /\ EngIdle

\* main.py:127,171  max_concurrency = _parse_max_concurrency(payload)
CallParseMaxConcurrency ==
    /\ parse_result = NotCalled
    /\ parse_result' = _parse_max_concurrency(payload)
    /\ UNCHANGED <<payload, dispVars, outVars, extVars, valVars, engVars>>

NextConc == CallParseMaxConcurrency

SpecConc == InitConc /\ [][NextConc]_vars

\* ------------------------------------------------------------------------
\* main.py:133-162  main stores OUTPUT after _process_vehicle_ids returns
\* ------------------------------------------------------------------------
\* Most vehicleIds of a run whose OUTPUT is built.
MaxOutIds == 22

\* main.py:18
OUTPUT_ITEM_LIMIT == 20

\* main.py:145-147  the "failed" list
FailedList(fails) ==
    [k \in 1..Len(fails) |-> [vehicleId |-> fails[k][1], error |-> fails[k][2]]]

\* The truncation test with > for >=.
BuildOutputStrict(ids, res, succeeded, fails) ==
    LET base == [total |-> Len(ids), succeeded |-> succeeded,
                 failed |-> FailedList(fails)] IN
    IF Len(ids) = 1 /\ res # <<>> THEN base @@ ("item" :> res[1])
    ELSE IF res # <<>>
    THEN IF Len(res) > succeeded
         THEN base @@ ("items" :> res)
         ELSE base @@ ("itemsPreview" :> res) @@ ("itemsPreviewCount" :> Len(res))
                   @@ ("itemsTotal" :> succeeded) @@ ("itemsTruncated" :> TRUE)
    ELSE base

\* main.py:142-160  the OUTPUT record
BuildOutput(ids, res, succeeded, fails) ==
    LET base == [total |-> Len(ids), succeeded |-> succeeded,
                 failed |-> FailedList(fails)] IN
    IF Len(ids) = 1 /\ res # <<>> THEN base @@ ("item" :> res[1])
    ELSE IF res # <<>>
    THEN IF Len(res) >= succeeded
         THEN base @@ ("items" :> res)
         ELSE base @@ ("itemsPreview" :> res) @@ ("itemsPreviewCount" :> Len(res))
                   @@ ("itemsTotal" :> succeeded) @@ ("itemsTruncated" :> TRUE)
    ELSE base

\* main.py:133  store_limit = None if len(vehicle_ids) == 1 else OUTPUT_ITEM_LIMIT
MainStoreLimit(ids) == IF Len(ids) = 1 THEN None ELSE <<OUTPUT_ITEM_LIMIT>>

\* A completion order of n tasks: input order, or the first task last.
CompletionOrders(n) ==
    {[k \in 1..n |-> k - 1]} \cup
    (IF n >= 2 THEN {[k \in 1..n |-> IF k = n THEN 0 ELSE k]} ELSE {})

\* main.py:91-97  what a finished batch leaves in results and failures when
\* its tasks complete in the given order
ResultsAfter(order, ids, outc, lim) ==
    LET ok == SelectSeq(order, LAMBDA i : outc[i] # "parse_fail")
        kept == IF lim = None THEN Len(ok) ELSE Min(Len(ok), lim[1])
    IN [k \in 1..kept |-> <<ok[k], ItemOf(ids[ok[k] + 1])>>]

FailuresAfter(order, ids, outc) ==
    LET bad == SelectSeq(order, LAMBDA i : outc[i] = "parse_fail")
    IN [k \in 1..Len(bad) |-> <<ids[bad[k] + 1], ErrorText("parse_vehicle")>>]

\* The state in which _process_vehicle_ids has returned to main (main.py:134)
\* from a run on the Apify platform: payload without maxConcurrency, n ids
\* of which the first or the last f fail to parse, push_to_dataset = True.
InitOut ==
    \E n \in 1..MaxOutIds, f \in 0..MaxOutIds, head \in BOOLEAN :
      \E order \in CompletionOrders(n) :
        /\ f <= n
        /\ payload = Raw("none", 0)
        /\ parse_result = _parse_max_concurrency(payload)
        /\ max_concurrency = parse_result.v
        /\ vehicle_ids = [i \in 1..n |-> VehicleId(i, n)]
        /\ store_limit = MainStoreLimit(vehicle_ids)
        /\ push_to_dataset = TRUE
        /\ outcome = [i \in 0..(n - 1) |->
                        IF (head /\ i < f) \/ (~head /\ i >= n - f)
                        THEN "parse_fail" ELSE "ok"]
        /\ queue = <<>>
        /\ unfinished = 0
        /\ results = ResultsAfter(order, vehicle_ids, outcome, store_limit)
        /\ failures = FailuresAfter(order, vehicle_ids, outcome)
        /\ success_count = n - f
        /\ processed = n
        /\ last_status = StatusEvery * (n \div StatusEvery)
        /\ wpc = [w \in 0..(worker_count - 1) |-> "exited"]
        /\ cur = [w \in 0..(worker_count - 1) |-> None]
        /\ runs = [i \in 0..(n - 1) |-> 1]
        /\ main_pc = "returned"
        /\ ordered_results = OrderedResults(results)
        /\ html_path = None
        /\ sessions = [w \in 0..(worker_count - 1) |->
                          <<[closed |-> 1, users |-> {w}]>>]
        /\ OutIdle
        /\ ExtIdle
        /\ ValIdle
        /\ EngIdle

\* main.py:142-162  build the record and Actor.set_value("OUTPUT", output)
SetOutput ==
    /\ main_pc = "returned"
    /\ output = None
    /\ output' = BuildOutput(vehicle_ids, ordered_results, success_count, failures)
    /\ UNCHANGED <<concVars, dispVars, extVars, valVars, engVars>>

NextOut == SetOutput

SpecOut == InitOut /\ [][NextOut]_vars

\* ------------------------------------------------------------------------
\* parser.py:150-210  extract_preloaded_state
\* ------------------------------------------------------------------------
\* Text is a sequence of tokens, each a run of characters: the marker, the
\* characters = { } ; and blank, "k" (an object member such as "k":1),
\* "junk" (other script text), "bloat" (an object member MAX_STATE_CHARS
\* long), and the tags <script> </script> <div> </div>.

\* Most elements of a page, before an optional unclosed script.
MaxBlocks == 2

\* parser.py:45
MAX_STATE_CHARS == 5000000

\* parser.py:152
marker == "__PRELOADED_STATE__"

TokenLen(t) ==
    CASE t = marker -> 19
      [] t = "bloat" -> MAX_STATE_CHARS
      [] t = "k" -> 5
      [] t = "junk" -> 4
      [] t = "<script>" -> 8
      [] t = "</script>" -> 9
      [] t = "<div>" -> 5
      [] t = "</div>" -> 6
      [] OTHER -> 1

\* len(text) in characters
RECURSIVE CharLen(_)
CharLen(text) == IF text = <<>> THEN 0 ELSE TokenLen(Head(text)) + CharLen(Tail(text))

\* text.find(t) as a 1-based token index, 0 when absent
RECURSIVE FindFrom(_, _, _)
FindFrom(text, t, i) ==
    IF i > Len(text) THEN 0
    ELSE IF text[i] = t THEN i
    ELSE FindFrom(text, t, i + 1)

Find(text, t) == FindFrom(text, t, 1)

\* text.partition(sep)[2]: what follows the first sep, "" when sep is absent
PartitionTail(text, sep) ==
    IF Find(text, sep) = 0 THEN <<>>
    ELSE SubSeq(text, Find(text, sep) + 1, Len(text))

\* text.split(sep, 1)[0]: what precedes the first sep, all of it when absent
SplitHead(text, sep) ==
    IF Find(text, sep) = 0 THEN text
    ELSE SubSeq(text, 1, Find(text, sep) - 1)

\* text.strip()
RECURSIVE Strip(_)
Strip(text) ==
    IF text = <<>> THEN text
    ELSE IF Head(text) = " " THEN Strip(Tail(text))
    ELSE IF text[Len(text)] = " " THEN Strip(SubSeq(text, 1, Len(text) - 1))
    ELSE text

EncarParseError(message) == [exc |-> "EncarParseError", v |-> message]

\* The first index >= i of text that holds no blank, Len(text) + 1 if none.
RECURSIVE SkipBlank(_, _)
SkipBlank(text, i) ==
    IF i <= Len(text) /\ text[i] = " " THEN SkipBlank(text, i + 1) ELSE i

JSONDecodeError(reason, text, i) ==
    [exc |-> "JSONDecodeError", v |-> <<reason, CharLen(SubSeq(text, 1, i - 1))>>]

IsMember(t) == t \in {"k", "bloat"}

\* After a complete object ending before index i: only blanks may follow.
JsonEnd(text, i, obj) ==
    IF SkipBlank(text, i) <= Len(text)
    THEN JSONDecodeError("Extra data", text, SkipBlank(text, i))
    ELSE Returned(obj)

\* json.loads(text) for a text over the tokens above; the object parsed is
\* the sequence of its members.
JsonLoads(text) ==
    IF SkipBlank(text, 1) > Len(text) \/ text[SkipBlank(text, 1)] # "{"
    THEN JSONDecodeError("Expecting value", text, SkipBlank(text, 1))
    ELSE LET a == SkipBlank(text, SkipBlank(text, 1) + 1) IN
         IF a <= Len(text) /\ text[a] = "}"
         THEN JsonEnd(text, a + 1, <<>>)
         ELSE IF a <= Len(text) /\ IsMember(text[a])
         THEN LET b == SkipBlank(text, a + 1) IN
              IF b <= Len(text) /\ text[b] = "}"
              THEN JsonEnd(text, b + 1, <<text[a]>>)
              ELSE JSONDecodeError("Expecting ',' delimiter", text, b)
         ELSE JSONDecodeError(
                  "Expecting property name enclosed in double quotes", text, a)

\* parser.py:184-200  _extract_json
_extract_json(script_body) ==
    LET tail == PartitionTail(script_body, marker)
        after_equals == PartitionTail(tail, "=")
        json_start == Find(after_equals, "{")
        untrimmed == Strip(SplitHead(SubSeq(after_equals, json_start,
                                            Len(after_equals)), "</script>"))
        json_blob == IF Find(untrimmed, ";") # 0
                     THEN Strip(SplitHead(untrimmed, ";"))
                     ELSE untrimmed
    IN  IF json_start = 0
        THEN EncarParseError(<<"Preloaded state JSON payload not found.">>)
        ELSE IF CharLen(json_blob) > MAX_STATE_CHARS
        THEN EncarParseError(<<"Preloaded state payload too large.">>)
        ELSE IF JsonLoads(json_blob).exc = ""
        THEN JsonLoads(json_blob)
        ELSE EncarParseError(<<"Failed to decode preloaded state: ">>
                             \o JsonLoads(json_blob).v)

\* html.parser.HTMLParser.feed: the handler calls made for a text.  Inside
\* a script element every token is data up to the next </script>; text not
\* yet followed by a tag is held back, and feed() alone never flushes it.
TagEvent(kind, tag) == [ev |-> kind, arg |-> tag]

DataEvents(pending) ==
    IF pending = <<>> THEN <<>> ELSE <<[ev |-> "data", arg |-> pending]>>

TagName(t) ==
    CASE t \in {"<script>", "</script>"} -> "script"
      [] t \in {"<div>", "</div>"} -> "div"
      [] OTHER -> ""

RECURSIVE ParserEvents(_, _, _, _)
ParserEvents(text, i, cdata, pending) ==
    IF i > Len(text) THEN <<>>
    ELSE IF cdata
    THEN IF text[i] = "</script>"
         THEN DataEvents(pending) \o <<TagEvent("endtag", "script")>>
              \o ParserEvents(text, i + 1, FALSE, <<>>)
         ELSE ParserEvents(text, i + 1, TRUE, Append(pending, text[i]))
    ELSE IF text[i] \in {"<script>", "<div>"}
    THEN DataEvents(pending) \o <<TagEvent("starttag", TagName(text[i]))>>
         \o ParserEvents(text, i + 1, text[i] = "<script>", <<>>)
    ELSE IF text[i] \in {"</script>", "</div>"}
    THEN DataEvents(pending) \o <<TagEvent("endtag", TagName(text[i]))>>
         \o ParserEvents(text, i + 1, FALSE, <<>>)
    ELSE ParserEvents(text, i + 1, FALSE, Append(pending, text[i]))

\* "".join(self._buffer)
RECURSIVE Join(_)
Join(chunks) == IF chunks = <<>> THEN <<>> ELSE Head(chunks) \o Join(Tail(chunks))

\* parser.py:155-159  _ScriptCollector.__init__
NewCollector == [scripts |-> <<>>, in_script |-> FALSE, buffer |-> <<>>]

\* parser.py:161-164
handle_starttag(self, tag) ==
    IF tag = "script" THEN [self EXCEPT !.in_script = TRUE, !.buffer = <<>>]
    ELSE self

\* parser.py:166-172
handle_endtag(self, tag) ==
    IF tag = "script" /\ self.in_script
    THEN [scripts |-> IF Find(Join(self.buffer), marker) # 0
                      THEN Append(self.scripts, Join(self.buffer))
                      ELSE self.scripts,
          in_script |-> FALSE,
          buffer |-> <<>>]
    ELSE self

\* parser.py:174-176
handle_data(self, data) ==
    IF self.in_script THEN [self EXCEPT !.buffer = Append(@, data)] ELSE self

RECURSIVE Feed(_, _)
Feed(self, events) ==
    IF events = <<>> THEN self
    ELSE Feed(CASE Head(events).ev = "starttag" -> handle_starttag(self, Head(events).arg)
                [] Head(events).ev = "endtag" -> handle_endtag(self, Head(events).arg)
                [] OTHER -> handle_data(self, Head(events).arg),
              Tail(events))

Reversed(seq) == [k \in 1..Len(seq) |-> seq[Len(seq) + 1 - k]]

\* The collected scripts, latest first.
candidates_latest_first(text) ==
    Reversed(Feed(NewCollector, ParserEvents(text, 1, FALSE, <<>>)).scripts)

\* parser.py:178-180  candidates = parser.scripts
candidates(text) == Feed(NewCollector, ParserEvents(text, 1, FALSE, <<>>)).scripts

\* parser.py:203-210  first valid candidate, else the last error
RECURSIVE TryCandidates(_, _)
TryCandidates(scripts, last_error) ==
    IF scripts = <<>>
    THEN EncarParseError(IF last_error # None THEN last_error[1]
                         ELSE <<"Failed to decode preloaded state.">>)
    ELSE IF _extract_json(Head(scripts)).exc = ""
    THEN _extract_json(Head(scripts))
    ELSE TryCandidates(Tail(scripts), <<_extract_json(Head(scripts)).v>>)

\* parser.py:150-210
extract_preloaded_state(text) ==
    IF candidates(text) = <<>>
    THEN EncarParseError(<<"Preloaded state marker not found.">>)
    ELSE TryCandidates(candidates(text), None)

\* The script bodies of the pages extracted.
ScriptBodies ==
    {<<"junk">>,
     <<marker>>,
     <<marker, " ", "=", " ", "junk">>,
     <<marker, "=", "{", "}">>,
     <<marker, "=", "{", "k", "}", ";", " ">>,
     <<marker, " ", "=", " ", "{", "junk", "}">>,
     <<marker, "=", "{", "k">>,
     <<marker, "=", "{", "}", "junk">>,
     <<marker, "=", "{", "bloat", "}">>,
     <<"junk", "=", "{", "}", marker, "=", "{", " ", "k", " ", "}">>,
     <<marker, "=", "{", "k", ";", "}">>,
     <<"{", marker, "=", "=", "{", "}">>}

\* An element of a page: a script element, or a div holding text.
Element(tag, body) == [tag |-> tag, body |-> body]

Elements ==
    {Element("script", b) : b \in ScriptBodies}
    \cup {Element("div", b) : b \in {<<"junk">>, <<marker, "=", "{", "}">>}}

\* A script element never closed, which may end a page.
UnclosedScripts == {<<>>, <<"<script>", marker, "=", "{", "}">>}

Render(e) == <<"<" \o e.tag \o ">">> \o e.body \o <<"</" \o e.tag \o ">">>

RECURSIVE RenderAll(_)
RenderAll(elems) ==
    IF elems = <<>> THEN <<>> ELSE Render(Head(elems)) \o RenderAll(Tail(elems))

Pages == UNION {[1..n -> Elements] : n \in 0..MaxBlocks}

InitExtract ==
    \E p \in Pages, u \in UnclosedScripts :
        /\ page = p
        /\ html = RenderAll(p) \o u
        /\ extract_result = NotCalled
        /\ payload = Raw("none", 0)
        /\ parse_result = NotCalled
        /\ DispIdle
        /\ OutIdle
        /\ ValIdle
        /\ EngIdle

\* parser.py:412  state = extract_preloaded_state(html)
CallExtract ==
    /\ extract_result.exc = NotCalled.exc
    /\ extract_result' = extract_preloaded_state(html)
    /\ UNCHANGED <<html, page, concVars, dispVars, outVars, valVars, engVars>>

NextExtract == CallExtract

SpecExtract == InitExtract /\ [][NextExtract]_vars

\* ------------------------------------------------------------------------
\* parser.py:48-118,314-331  validate_state and the pydantic models
\* ------------------------------------------------------------------------
\* Largest number of unknown extra fields put into one object of a state.
MaxExtra == 1

\* Decoded JSON values, tagged by their Python type, each type with a field
\* of its own for the value.  JNull is Python's None, which is also what
\* dict.get returns for an absent key.  The states modelled hold no floats
\* and no lists.
JNull == [t |-> "NoneType"]

JInt(n) == [t |-> "int", n |-> n]

JStr(s) == [t |-> "str", s |-> s]

JBool(b) == [t |-> "bool", b |-> b]

JDict(f) == [t |-> "dict", d |-> f]

EmptyDict == JDict(<<>>)

\* d.get(key)
Get(d, key) == IF key \in DOMAIN d.d THEN d.d[key] ELSE JNull

\* d.get(key, {})
GetOrEmpty(d, key) == IF key \in DOMAIN d.d THEN d.d[key] ELSE EmptyDict

\* isinstance(x, dict)
IsDict(x) == x.t = "dict"

\* The strings of the states modelled that int() and pydantic's integer
\* validation parse, with their values; the other strings hold no digits.
StrInts == ("1998" :> 1998) @@ ("2024" :> 2024)

IsNumericStr(x) == x.t = "str" /\ x.s \in DOMAIN StrInts

\* parser.py:48-118  the fields of each model, in declaration order; a field
\* of type T other than a model is Optional[T] = None, a model-typed field
\* is required unless optional is set.
Field(name, type, optional) == [name |-> name, type |-> type, optional |-> optional]

ModelFields ==
    [CategoryModel |->
        << Field("manufacturerEnglishName", "str", TRUE),
           Field("manufacturerName", "str", TRUE),
           Field("modelGroupEnglishName", "str", TRUE),
           Field("modelGroupName", "str", TRUE),
           Field("modelName", "str", TRUE),
           Field("gradeEnglishName", "str", TRUE),
           Field("gradeName", "str", TRUE),
           Field("yearMonth", "str", TRUE),
           Field("formYear", "int", TRUE) >>,
     AdvertisementModel |->
        << Field("price", "int", TRUE),
           Field("advertisementType", "str", TRUE),
           Field("status", "str", TRUE),
           Field("diagnosisCar", "bool", TRUE) >>,
     SpecModel |->
        << Field("displacement", "int", TRUE),
           Field("transmissionName", "str", TRUE),
           Field("fuelCd", "str", TRUE),
           Field("fuelName", "str", TRUE),
           Field("colorName", "str", TRUE),
           Field("seatCount", "int", TRUE),
           Field("bodyName", "str", TRUE),
           Field("mileage", "int", TRUE) >>,
     ManageModel |->
        << Field("registDateTime", "str", TRUE),
           Field("firstAdvertisedDateTime", "str", TRUE),
           Field("modifyDateTime", "str", TRUE),
           Field("subscribeCount", "int", TRUE),
           Field("viewCount", "int", TRUE) >>,
     ConditionModel |->
        << Field("accident", "dict", TRUE),
           Field("inspection", "dict", TRUE),
           Field("seizing", "dict", TRUE) >>,
     DetailFlagsModel |->
        << Field("adStatus", "str", TRUE) >>,
     BaseCarModel |->
        << Field("vehicleId", "int", TRUE),
           Field("vin", "str", TRUE),
           Field("category", "CategoryModel", FALSE),
           Field("advertisement", "AdvertisementModel", FALSE),
           Field("spec", "SpecModel", FALSE),
           Field("manage", "ManageModel", FALSE),
           Field("condition", "ConditionModel", FALSE),
           Field("detailFlags", "DetailFlagsModel", TRUE) >>]

IsModel(type) == type \in DOMAIN ModelFields

\* The condition field declared Optional[ConditionModel] = None.
IsRequiredButCondition(f) == ~f.optional /\ f.name # "condition"

\* parser.py:113-117  a field declared without a default is required
IsRequired(f) == ~f.optional

\* One entry of ValidationError.errors()
ErrorDetail(msg, loc) == [msg |-> msg, loc |-> loc]

\* pydantic's validation of a value that is not None against a scalar field
\* type (lax mode): the errors it reports at loc.
ScalarErrors(type, x, loc) ==
    CASE type = "int" ->
            IF x.t \in {"int", "bool"} \/ IsNumericStr(x) THEN <<>>
            ELSE IF x.t = "str"
            THEN <<ErrorDetail("Input should be a valid integer, unable to parse string as an integer", loc)>>
            ELSE <<ErrorDetail("Input should be a valid integer", loc)>>
      [] type = "str" ->
            IF x.t = "str" THEN <<>>
            ELSE <<ErrorDetail("Input should be a valid string", loc)>>
      [] type = "bool" ->
            IF x.t = "bool" \/ (x.t = "int" /\ x.n \in {0, 1}) THEN <<>>
            ELSE IF x.t \in {"int", "str"}
            THEN <<ErrorDetail("Input should be a valid boolean, unable to interpret input", loc)>>
            ELSE <<ErrorDetail("Input should be a valid boolean", loc)>>
      [] type = "dict" ->
            IF IsDict(x) THEN <<>>
            ELSE <<ErrorDetail("Input should be a valid dictionary", loc)>>

\* BaseModel.model_validate with extra="ignore": the fields are validated in
\* declaration order, keys that name no field are skipped, and the errors of
\* a nested model come where its field stands.
RECURSIVE ModelErrors(_, _, _)
RECURSIVE FieldErrors(_, _, _, _)
FieldErrors(fields, i, obj, loc) ==
    IF i > Len(fields) THEN <<>>
    ELSE LET f == fields[i]
             here == Append(loc, f.name)
             errs == IF f.name \notin DOMAIN obj.d
                     THEN IF IsRequired(f)
                          THEN <<ErrorDetail("Field required", here)>>
                          ELSE <<>>
                     ELSE IF obj.d[f.name].t = "NoneType" /\ ~IsRequired(f) THEN <<>>
                     ELSE IF IsModel(f.type)
                     THEN ModelErrors(f.type, obj.d[f.name], here)
                     ELSE ScalarErrors(f.type, obj.d[f.name], here)
         IN  errs \o FieldErrors(fields, i + 1, obj, loc)

ModelErrors(model, x, loc) ==
    IF IsDict(x)
    THEN FieldErrors(ModelFields[model], 1, x, loc)
    ELSE <<ErrorDetail("Input should be a valid dictionary or instance of " \o model, loc)>>

\* '/'.join(str(loc) for loc in err.get('loc', []))
RECURSIVE JoinWith(_, _)
JoinWith(sep, parts) ==
    IF parts = <<>> THEN ""
    ELSE IF Len(parts) = 1 THEN parts[1]
    ELSE parts[1] \o sep \o JoinWith(sep, Tail(parts))

\* parser.py:326-329  the first three errors, formatted
Formatted(errors) ==
    [i \in 1..Min(Len(errors), 3) |->
        errors[i].msg \o " @ " \o JoinWith("/", errors[i].loc)]

\* parser.py:314-331  (the messages' backquotes are written as quotes)
validate_state(st) ==
    LET cars == Get(st, "cars") IN
    IF ~IsDict(cars)
    THEN EncarParseError("State missing 'cars' object.")
    ELSE LET base == Get(cars, "base") IN
         IF ~IsDict(base)
         THEN EncarParseError("State missing 'cars.base' object.")
         ELSE LET errors == ModelErrors("BaseCarModel", base, <<>>) IN
              IF errors = <<>>
              THEN Returned("BaseCarModel")  \* the validated model instance
              ELSE EncarParseError("cars.base validation failed: "
                                   \o JoinWith("; ", Formatted(errors)))

\* ------------------------------------------------------------------------
\* parser.py:213-311,334-401  the normalizer: format_engine and build_output
\* ------------------------------------------------------------------------
\* Largest displacement, in cc, given to format_engine on its own.
MaxDisplacement == 2100

\* Largest magnitude of a negative displacement given to format_engine.
MaxNegDisplacement == 160

\* bool(x)
Truthy(x) ==
    CASE x.t = "NoneType" -> FALSE
      [] x.t = "int" -> x.n # 0
      [] x.t = "bool" -> x.b
      [] x.t = "str" -> x.s # ""
      [] x.t = "dict" -> DOMAIN x.d # {}

\* a or b
Or(a, b) == IF Truthy(a) THEN a ELSE b

\* The integer an int or a bool stands for in arithmetic and comparisons.
Num(x) == IF x.t = "bool" THEN (IF x.b THEN 1 ELSE 0) ELSE x.n

IsNum(x) == x.t \in {"int", "bool"}

\* str(n) for n >= 0, one character per element
RECURSIVE Digits(_)
Digits(n) ==
    LET chars == <<"0", "1", "2", "3", "4", "5", "6", "7", "8", "9">> IN
    IF n < 10 THEN <<chars[n + 1]>>
    ELSE Append(Digits(n \div 10), chars[(n % 10) + 1])

\* (2^e * m) mod 1000
RECURSIVE Pow2Mod1000(_, _)
Pow2Mod1000(e, m) == IF e = 0 THEN m % 1000 ELSE Pow2Mod1000(e - 1, (2 * m) % 1000)

\* The shift e for which 2^52 <= a * 2^e / 1000 < 2^53 (a > 0): the scale of
\* the 53-bit significand of the double nearest to a / 1000.
RECURSIVE ShiftUp(_, _)
ShiftUp(a, e) == IF a >= 1000 THEN e ELSE ShiftUp(2 * a, e + 1)

RECURSIVE ShiftDown(_, _, _)
ShiftDown(a, bound, e) == IF a < 2 * bound THEN e ELSE ShiftDown(a, 2 * bound, e - 1)

SignificandShift(a) == IF a >= 1000 THEN ShiftDown(a, 1000, 52) ELSE ShiftUp(a, 52)

\* parser.py:224  liters = displacement_cc / 1000 is the double nearest to
\* the quotient.  DoubleRemainder is the remainder of a * 2^e by 1000: zero
\* when the double is the quotient, more than half of 1000 when the double
\* lies above it, less when below (a > 0).
DoubleRemainder(a) == Pow2Mod1000(SignificandShift(a), a)

\* parser.py:225  f"{liters:.1f}": the tenths nearest to the double, the
\* even one when the double is half way between two tenths.
RoundedTenths(a) ==
    LET down == a \div 100 IN
    IF a % 100 > 50 THEN down + 1
    ELSE IF a % 100 < 50 THEN down
    ELSE IF DoubleRemainder(a) = 0 THEN down + (down % 2)
    ELSE IF DoubleRemainder(a) > 500 THEN down + 1
    ELSE down

Format1f(cc) ==
    LET a == IF cc < 0 THEN 0 - cc ELSE cc
        t == RoundedTenths(a)
    IN  (IF cc < 0 THEN <<"-">> ELSE <<>>)
        \o Digits(t \div 10) \o <<".">> \o Digits(t % 10)

\* str.rstrip(c)
RECURSIVE RStrip(_, _)
RStrip(chars, c) ==
    IF chars # <<>> /\ chars[Len(chars)] = c
    THEN RStrip(SubSeq(chars, 1, Len(chars) - 1), c)
    ELSE chars

\* "".join(chars)
RECURSIVE Text(_)
Text(chars) == IF chars = <<>> THEN "" ELSE Head(chars) \o Text(Tail(chars))

\* The one-decimal text kept as it is.
untrimmed(cc) == Format1f(cc)

\* parser.py:225  trimmed = f"{liters:.1f}".rstrip("0").rstrip(".")
trimmed(cc) == RStrip(RStrip(Format1f(cc), "0"), ".")

\* parser.py:220-226
format_engine(displacement_cc) ==
    IF displacement_cc.t = "NoneType"
       \/ (IsNum(displacement_cc) /\ Num(displacement_cc) = 0)
    THEN Returned(JNull)
    ELSE IF ~IsNum(displacement_cc)
    THEN Raised("TypeError")
    ELSE Returned(JStr(Text(trimmed(Num(displacement_cc))) \o "L"))

\* Strings are atomic here, so the string functions of the normalizer are
\* given over the strings the states modelled hold: none has surrounding
\* blanks (str.strip() returns it unchanged), and Korean words are written
\* in Latin transcription.

\* int(x) for a validated Optional[int] that is not None
IntOf(x) == IF x.t = "str" THEN StrInts[x.s] ELSE Num(x)

\* str(x)
PyStr(x) ==
    CASE x.t = "str" -> x.s
      [] x.t = "int" -> ToString(x.n)
      [] x.t = "bool" -> IF x.b THEN "True" ELSE "False"

\* mapping.get(value, value)
Lookup(mapping, value) ==
    IF value.s \in DOMAIN mapping THEN JStr(mapping[value.s]) ELSE value

\* parser.py:213-217
normalize_price(raw_price) ==
    IF raw_price.t = "NoneType" THEN JNull ELSE JInt(IntOf(raw_price) * 10000)

\* parser.py:229-234
translate_transmission(value) ==
    IF ~Truthy(value) THEN JNull
    ELSE Lookup(("oto" :> "Automatic") @@ ("sudong" :> "Manual"), value)

\* parser.py:237-248
translate_fuel(value) ==
    IF ~Truthy(value) THEN JNull
    ELSE Lookup(("gasollin" :> "Gasoline") @@ ("dijel" :> "Diesel")
                @@ ("haibeurideu" :> "Hybrid") @@ ("jeongi" :> "Electric")
                @@ ("LPG" :> "LPG"), value)

\* parser.py:251-263
classify_fuel(spec) ==
    LET code_map == ("001" :> "Gasoline") @@ ("002" :> "Diesel") @@ ("003" :> "LPG")
                    @@ ("004" :> "Electric") @@ ("005" :> "Hybrid")
                    @@ ("006" :> "Hydrogen")
    IN  IF Get(spec, "fuelCd").t = "str" /\ Get(spec, "fuelCd").s \in DOMAIN code_map
        THEN JStr(code_map[Get(spec, "fuelCd").s])
        ELSE translate_fuel(Get(spec, "fuelName"))

\* parser.py:266-280
COLOR_MAP ==
    ("geomjeongsaek" :> "Black") @@ ("huinsaek" :> "White") @@ ("hwaiteu" :> "White")
    @@ ("eunsaek" :> "Silver") @@ ("hoesaek" :> "Gray") @@ ("ppalgansaek" :> "Red")
    @@ ("paransaek" :> "Blue") @@ ("cheongsaek" :> "Blue") @@ ("choroksaek" :> "Green")
    @@ ("galsaek" :> "Brown") @@ ("beiji" :> "Beige") @@ ("noransaek" :> "Yellow")
    @@ ("juhwangsaek" :> "Orange")

\* parser.py:283-295  (every other string modelled is ASCII)
to_english(text) == IF ~Truthy(text) THEN JNull ELSE Lookup(COLOR_MAP, text)

\* The strings modelled whose first four characters are digits, with int()
\* of those characters.
YearPrefix == ("202401" :> 2024) @@ ("1998" :> 1998) @@ ("2024" :> 2024)

\* parser.py:298-304
extract_year(category) ==
    IF Truthy(Get(category, "formYear"))
    THEN JInt(IntOf(Get(category, "formYear")))
    ELSE LET year_month == PyStr(Or(Get(category, "yearMonth"), JStr(""))) IN
         IF year_month \in DOMAIN YearPrefix
         THEN JInt(YearPrefix[year_month])
         ELSE JNull

\* date_str.split("T", 1)[0] over the strings modelled
BeforeT == ("2024-01-02T03:04:05" :> "2024-01-02")

\* parser.py:307-311
format_date(date_str) ==
    IF ~Truthy(date_str) THEN JNull ELSE Lookup(BeforeT, date_str)

\* {k: v for k, v in d.items() if v is not None}
WithoutNone(d) == [k \in {k \in DOMAIN d : d[k].t # "NoneType"} |-> d[k]]

\* {k: v for k, v in d.items() if v}
WithoutFalsy(d) == [k \in {k \in DOMAIN d : Truthy(d[k])} |-> d[k]]

\* d.get(key, {}).get(...) raises AttributeError when d[key] is no dict
NotDictAt(d, key) == key \in DOMAIN d.d /\ ~IsDict(d.d[key])

\* parser.py:342-350  (format_engine has returned)
specifications(spec) ==
    WithoutNone(
        [engine |-> format_engine(Get(spec, "displacement")).v,
         transmission |-> translate_transmission(Get(spec, "transmissionName")),
         fuel_type |-> classify_fuel(spec),
         color |-> to_english(Get(spec, "colorName")),
         body_type |-> Get(spec, "bodyName"),
         seats |-> Get(spec, "seatCount")])

\* parser.py:352-357
timestamps(manage) ==
    WithoutFalsy(
        [registered_at |-> format_date(Get(manage, "registDateTime")),
         first_advertised_at |-> format_date(Get(manage, "firstAdvertisedDateTime")),
         modified_at |-> format_date(Get(manage, "modifyDateTime"))])

\* parser.py:359-366
metrics(base, advertisement, manage) ==
    WithoutNone(
        [view_count |-> Get(manage, "viewCount"),
         favorite_count |-> Get(manage, "subscribeCount"),
         ad_type |-> Get(advertisement, "advertisementType"),
         ad_status |-> Or(Get(GetOrEmpty(base, "detailFlags"), "adStatus"),
                          Get(advertisement, "status")),
         diagnosis_car |-> Get(advertisement, "diagnosisCar")])

\* parser.py:368-374
condition(condition_base) ==
    WithoutNone(
        [accident_record_view |-> Get(GetOrEmpty(condition_base, "accident"), "recordView"),
         inspection_formats |-> Get(GetOrEmpty(condition_base, "inspection"), "formats"),
         seizing_count |-> Get(GetOrEmpty(condition_base, "seizing"), "seizingCount"),
         pledge_count |-> Get(GetOrEmpty(condition_base, "seizing"), "pledgeCount")])

\* data[key] = section, when the section is not empty
WithSection(data, key, section) ==
    IF DOMAIN section = {} THEN data ELSE data @@ (key :> JDict(section))

\* parser.py:334-401  build_output, for a state whose leaves have the types
\* validate_state accepts.  The .get of something that is no dict raises
\* AttributeError: at line 335 or 336 for cars and base, at line 343 for
\* spec, and after format_engine has been called for the others.
build_output(vehicle_id, st) ==
    LET cars == GetOrEmpty(st, "cars")
        base == GetOrEmpty(cars, "base")
        category == GetOrEmpty(base, "category")
        advertisement == GetOrEmpty(base, "advertisement")
        spec == GetOrEmpty(base, "spec")
        manage == GetOrEmpty(base, "manage")
        condition_base == GetOrEmpty(base, "condition")
        url == JStr("https://fem.encar.com/cars/detail/" \o vehicle_id)
        data ==
            [id |-> JStr(PyStr(Or(Get(base, "vehicleId"), JStr(vehicle_id)))),
             vin |-> Get(base, "vin"),
             make |-> Or(Get(category, "manufacturerEnglishName"),
                         Get(category, "manufacturerName")),
             model |-> Or(Or(Get(category, "modelGroupEnglishName"),
                             Get(category, "modelGroupName")),
                          Get(category, "modelName")),
             trim |-> Or(Get(category, "gradeEnglishName"), Get(category, "gradeName")),
             year |-> extract_year(category),
             price |-> normalize_price(Get(advertisement, "price")),
             mileage |-> Get(spec, "mileage"),
             fuel |-> classify_fuel(spec),
             url |-> url,
             card_url |-> url]
    IN  IF ~IsDict(cars) THEN Raised("AttributeError")
        ELSE IF ~IsDict(base) \/ ~IsDict(spec) THEN Raised("AttributeError")
        ELSE IF format_engine(Get(spec, "displacement")).exc # ""
        THEN Raised(format_engine(Get(spec, "displacement")).exc)
        ELSE IF ~IsDict(manage) \/ ~IsDict(advertisement) \/ ~IsDict(condition_base)
                \/ ~IsDict(category) \/ NotDictAt(base, "detailFlags")
        THEN Raised("AttributeError")
        ELSE IF NotDictAt(condition_base, "accident")
                \/ NotDictAt(condition_base, "inspection")
                \/ NotDictAt(condition_base, "seizing")
        THEN Raised("AttributeError")
        ELSE Returned(JDict(
                 WithoutNone(
                     WithSection(
                         WithSection(
                             WithSection(
                                 WithSection(data, "specifications", specifications(spec)),
                                 "timestamps", timestamps(manage)),
                             "metrics", metrics(base, advertisement, manage)),
                         "condition", condition(condition_base)))))

\* parser.py:404-414  parse_vehicle; loaded is what lines 407-412 come
\* to: the state extract_preloaded_state returns, or the exception that
\* reading, fetching or extracting raises.
parse_vehicle(vehicle_id, loaded) ==
    IF loaded.exc # "" THEN loaded
    ELSE IF validate_state(loaded.v).exc # "" THEN validate_state(loaded.v)
    ELSE IF build_output(vehicle_id, loaded.v).exc # ""
    THEN build_output(vehicle_id, loaded.v)
    ELSE Returned(JDict([data |-> build_output(vehicle_id, loaded.v).v]))

\* ------------------------------------------------------------------------
\* parse_vehicle and validate_state on their own (specification SpecValidate)
\* ------------------------------------------------------------------------
\* Unknown fields: n keys that no model declares.
Extras(n) == [k \in {"extra" \o ToString(i) : i \in 1..n} |-> JInt(1)]

\* Marks a key left out of an object.
Absent == [t |-> "absent"]

\* The object with the fields of f that are not left out.
Object(f) == JDict([k \in {k \in DOMAIN f : f[k].t # "absent"} |-> f[k]])

\* What a required key of cars.base may come with: left out, null, a string,
\* an empty object, an object with one well-typed field and unknown fields,
\* or an object with an ill-typed field.
SubObjects(good, bad) ==
    {Absent, JNull, JStr("x"), EmptyDict, JDict(bad)}
    \cup {JDict(good @@ Extras(n)) : n \in 0..MaxExtra}

Categories == SubObjects("formYear" :> JInt(2024), "formYear" :> JStr("abc"))

Advertisements == SubObjects("price" :> JInt(1500), "price" :> EmptyDict)

Specs == SubObjects("displacement" :> JInt(1998), "seatCount" :> JStr("abc"))

Manages == SubObjects("registDateTime" :> JStr("2024-01-02T03:04:05"),
                      "registDateTime" :> JInt(1))

Conditions == SubObjects("accident" :> JDict("recordView" :> JBool(TRUE)),
                         "accident" :> JInt(1))

\* The state with cars.base = base and n unknown fields beside each of
\* cars, base and the fields of base.
StateOf(base, n) ==
    JDict(("cars" :> JDict(("base" :> JDict(base.d @@ Extras(n))) @@ Extras(n)))
          @@ Extras(n))

\* States of every shape of cars.base.
ShapeStates ==
    {StateOf(Object([category |-> c, advertisement |-> a, spec |-> s,
                     manage |-> m, condition |-> d]), n)
     : c \in Categories, a \in Advertisements, s \in Specs, m \in Manages,
       d \in Conditions, n \in 0..MaxExtra}

\* States without a cars.base object.
BaselessStates ==
    {Object([cars |-> c]) : c \in {Absent, JNull, JStr("x"), EmptyDict}}
    \cup {JDict("cars" :> Object([base |-> b]) ) : b \in {JNull, JInt(1), JStr("x")}}
    \cup {JDict(("cars" :> JDict(Extras(n))) @@ Extras(n)) : n \in 0..MaxExtra}

\* States with the five required objects and varied optional fields.
FieldStates ==
    {StateOf(Object([vehicleId |-> v,
                     category |-> JDict("yearMonth" :> JStr("202401")),
                     advertisement |-> JDict("price" :> JStr("1998")),
                     spec |-> Object([displacement |-> e, seatCount |-> JInt(5)]),
                     manage |-> EmptyDict,
                     condition |-> Object([accident |-> acc]),
                     detailFlags |-> f]), 0)
     : v \in {Absent, JInt(40849700), JStr("abc")},
       e \in {Absent, JNull, JInt(0), JInt(1998), JStr("1998"), JBool(FALSE)},
       acc \in {Absent, JNull},
       f \in {Absent, JNull, JInt(1), JDict("adStatus" :> JStr("ADVERTISE"))}}

\* The states extract_preloaded_state returns to parse_vehicle.
States == ShapeStates \cup BaselessStates \cup FieldStates

\* The vehicle id of the calls modelled.
SampleVehicleId == "40849700"

InitValidate ==
    /\ \/ \E st \in States : extracted = Returned(st)
       \/ extracted = Raised("RequestException")
       \/ extracted = EncarParseError("Preloaded state marker not found.")
    /\ validate_result = NotCalled
    /\ vehicle_result = NotCalled
    /\ payload = Raw("none", 0)
    /\ parse_result = NotCalled
    /\ DispIdle
    /\ OutIdle
    /\ ExtIdle
    /\ EngIdle

\* parser.py:413  validate_state(state)
CallValidateState ==
    /\ extracted.exc = ""
    /\ validate_result.exc = NotCalled.exc
    /\ validate_result' = validate_state(extracted.v)
    /\ UNCHANGED <<extracted, vehicle_result, concVars, dispVars, outVars, extVars,
                   engVars>>

\* main.py:88-90  parse_vehicle(vehicle_id, ...)
CallParseVehicle ==
    /\ vehicle_result.exc = NotCalled.exc
    /\ vehicle_result' = parse_vehicle(SampleVehicleId, extracted)
    /\ UNCHANGED <<extracted, validate_result, concVars, dispVars, outVars, extVars,
                   engVars>>

NextValidate == CallValidateState \/ CallParseVehicle

SpecValidate == InitValidate /\ [][NextValidate]_vars

\* ------------------------------------------------------------------------
\* The specifications section of build_output (specification SpecEngine)
\* ------------------------------------------------------------------------
\* The displacement values of the spec objects normalized.
Displacements ==
    {JInt(cc) : cc \in (0 - MaxNegDisplacement)..MaxDisplacement}
    \cup {JNull, JBool(FALSE), JBool(TRUE), JStr("1998")}

SpecObjects ==
    {EmptyDict} \cup {JDict("displacement" :> d) : d \in Displacements}
    \cup {JDict(("displacement" :> d) @@ ("seatCount" :> JInt(5))
                @@ ("transmissionName" :> JStr("oto")))
          : d \in {JNull, JInt(0), JInt(1998)}}

InitEngine ==
    /\ spec_in \in SpecObjects
    /\ engine_result = NotCalled
    /\ specifications_result = NotCalled
    /\ payload = Raw("none", 0)
    /\ parse_result = NotCalled
    /\ DispIdle
    /\ OutIdle
    /\ ExtIdle
    /\ ValIdle

\* parser.py:342-350  the specifications of build_output, or the exception
\* of format_engine
BuildSpecifications ==
    /\ specifications_result.exc = NotCalled.exc
    /\ engine_result' = format_engine(Get(spec_in, "displacement"))
    /\ specifications_result' =
           IF format_engine(Get(spec_in, "displacement")).exc # ""
           THEN Raised(format_engine(Get(spec_in, "displacement")).exc)
           ELSE Returned(specifications(spec_in))
    /\ UNCHANGED <<spec_in, concVars, dispVars, outVars, extVars, valVars>>

NextEngine == BuildSpecifications

SpecEngine == InitEngine /\ [][NextEngine]_vars

\* ------------------------------------------------------------------------
\* Properties of the dispatcher (specification Spec)
\* ------------------------------------------------------------------------
\* Tasks inside parse_vehicle.
ActiveFetches == Cardinality({w \in Workers : wpc[w] = "parse"})

\* The input position (1-based) of a returned item.
PositionOf(item) == CHOOSE i \in 1..total : ItemOf(vehicle_ids[i]) = item

\* The order_idx values whose parse_vehicle call returns a record.
ParseSucceeds == {i \in 0..(total - 1) : outcome[i] # "parse_fail"}

\* The order_idx values for which some step of the handling fails.
FailedItems == {i \in 0..(total - 1) : outcome[i] # "ok"}

\* The items of the order_idx set S, in input order.
RECURSIVE InInputOrder(_, _)
InInputOrder(S, from) ==
    IF from > total THEN <<>>
    ELSE IF (from - 1) \in S
         THEN <<ItemOf(vehicle_ids[from])>> \o InInputOrder(S, from + 1)
         ELSE InInputOrder(S, from + 1)

\* How many entries of the failures list name the vehicle id.
FailureEntries(vehicle_id) ==
    Cardinality({k \in 1..Len(failures) : failures[k][1] = vehicle_id})

CompletionOutOfOrder ==
    \E a, b \in 1..Len(results) : a < b /\ results[a][1] > results[b][1]

\* C1: the returned success list is ordered by original input position: of
\* two returned records, the one of the earlier input position comes first,
\* whatever the order in which the workers completed.
C1_OrderedByInputPosition ==
    main_pc = "returned" =>
        \A a, b \in 1..Len(ordered_results) :
            a < b => PositionOf(ordered_results[a]) < PositionOf(ordered_results[b])

\* C1 witness: a batch has returned whose successes completed out of input
\* order.
C1_Witness ==
    /\ main_pc = "returned"
    /\ Len(ordered_results) >= 2
    /\ CompletionOutOfOrder

\* C2 (as claimed): with k items failing at any step of their handling, the
\* batch returns success count n - k and exactly k failure entries, one per
\* failed item and none for a succeeded item, and never raises.
C2_Original ==
    /\ main_pc # "raised"
    /\ main_pc = "returned" =>
        /\ success_count = total - Cardinality(FailedItems)
        /\ Len(failures) = Cardinality(FailedItems)
        /\ \A i \in 0..(total - 1) :
              FailureEntries(vehicle_ids[i + 1]) = IF i \in FailedItems THEN 1 ELSE 0

\* C3 (as claimed): the number of active fetches never exceeds min(C, N, 10)
\* for the caller-supplied C, and the pool has min(clamp(C), N) workers.
C3_Original ==
    /\ ActiveFetches <= Min(Min(payload.v, total), 10)
    /\ Cardinality(Workers) = Min(Max(1, Min(payload.v, 10)), total)

\* C3 (amended): the number of active fetches never exceeds
\* min(clamp(C), N) with clamp(C) = max(1, min(C, 10)), a limit of at least 1,
\* and the pool has exactly that many workers.
C3_ActiveFetchesBounded ==
    LET limit == Min(Max(1, Min(payload.v, 10)), total) IN
    /\ ActiveFetches <= limit
    /\ limit >= 1
    /\ Cardinality(Workers) = limit

\* C3 witness: more ids than workers, and every worker of a pool of two is
\* inside parse_vehicle.
C3_Witness ==
    /\ payload.v = 2
    /\ total > 2
    /\ ActiveFetches = 2

\* C4: every queued task is dequeued and run exactly once, by one worker: no
\* task is started twice or held by two workers, and when the dispatcher
\* returns every task has run once and none is left, whatever failed.
C4_EachTaskOnce ==
    /\ \A i \in 0..(total - 1) :
          /\ runs[i] <= 1
          /\ Cardinality({w \in Workers : cur[w] # None /\ cur[w][1] = i}) <= runs[i]
    /\ main_pc = "returned" =>
          /\ \A i \in 0..(total - 1) : runs[i] = 1
          /\ processed = total
          /\ queue = <<>>

\* C4 witness: a pool of two has returned from a batch of three or more in
\* which some task failed.
C4_Witness ==
    /\ main_pc = "returned"
    /\ Cardinality(Workers) = 2
    /\ total >= 3
    /\ failures # <<>>

\* No worker can take another step.
Quiescent == \A w \in Workers : wpc[w] \in {"exited", "crashed", "get"}

SentinelsQueued == Cardinality({k \in 1..Len(queue) : queue[k] = None})

\* C5 (as claimed): a batch run always completes.  No worker takes a
\* sentinel while a real task is queued, every worker ends by taking exactly
\* one sentinel, so that once no worker can step join() and gather can
\* return, and the result is final only when every task is consumed and no
\* worker is active.
C5_Original ==
    /\ (\E w \in Workers : wpc[w] = "exited") =>
          \A k \in 1..Len(queue) : queue[k] = None
    /\ Cardinality({w \in Workers : wpc[w] = "exited"}) + SentinelsQueued
          = Cardinality(Workers)
    /\ Quiescent => /\ \A w \in Workers : wpc[w] = "exited"
                    /\ unfinished = 0
    /\ main_pc = "returned" => /\ queue = <<>>
                               /\ processed = total
                               /\ \A w \in Workers : wpc[w] = "exited"

\* The successes in input order, cut to the first store_limit of them.
SuccessesUnderCap ==
    LET all == InInputOrder(ParseSucceeds, 1) IN
    IF store_limit = None THEN all
    ELSE SubSeq(all, 1, Min(Len(all), store_limit[1]))

\* C6 (as claimed): the returned success list depends only on the input list
\* and the per-item outcomes, also under a storage cap smaller than the
\* number of successes: it is the list the run completing in input order
\* returns.
C6_Original ==
    main_pc = "returned" => ordered_results = SuccessesUnderCap

\* C6 (amended): when no cap is in force, or all successes fit under it, the
\* returned success list is the same under every interleaving: the records
\* of the successful ids in input order.
C6_SameListWhenAllFit ==
    (main_pc = "returned"
        /\ (store_limit = None \/ success_count <= store_limit[1]))
    => ordered_results = InInputOrder(ParseSucceeds, 1)

\* C6 witness: a capped batch has returned whose successes all fit and
\* completed out of input order.
C6_Witness ==
    /\ main_pc = "returned"
    /\ store_limit # None
    /\ success_count = store_limit[1]
    /\ success_count >= 2
    /\ CompletionOutOfOrder

\* The order_idx values whose parse_vehicle call has returned a record.
ParsedOk ==
    {i \in ParseSucceeds :
        runs[i] >= 1 /\ ~ \E w \in Workers : wpc[w] = "parse" /\ cur[w][1] = i}

\* C7: under a cap L at most L records are ever retained while the success
\* count counts every task whose parse succeeded, so retained =
\* min(successes, L), also in the returned list; without a cap every success
\* is retained.
C7_RetainedUnderCap ==
    /\ store_limit # None => Len(results) <= store_limit[1]
    /\ success_count = Cardinality(ParsedOk)
    /\ Len(results) = IF store_limit = None THEN success_count
                       ELSE Min(success_count, store_limit[1])
    /\ main_pc = "returned" => Len(ordered_results) = Len(results)

\* C7 witness: a batch has returned with more successes than its cap.
C7_Witness ==
    /\ main_pc = "returned"
    /\ store_limit # None
    /\ success_count > store_limit[1]

\* ------------------------------------------------------------------------
\* Properties of _parse_max_concurrency (specification SpecConc)
\* ------------------------------------------------------------------------
\* C9 (as claimed): for every caller-supplied value the call returns an
\* effective concurrency in [1, 10]: max(1, min(v, 10)) for an integer v,
\* and 3 for a missing or non-numeric value.
C9_Original ==
    parse_result # NotCalled =>
        /\ parse_result.exc = ""
        /\ parse_result.v \in 1..10
        /\ payload.kind = "int" => parse_result.v = Max(1, Min(payload.v, 10))
        /\ payload.kind \in {"none", "str_other", "list"} => parse_result.v = 3

\* ------------------------------------------------------------------------
\* Properties of the OUTPUT record (specification SpecOut)
\* ------------------------------------------------------------------------
MultiRunOutput == output # None /\ Len(vehicle_ids) > 1

AllFitUnderCap == store_limit = None \/ success_count <= store_limit[1]

OutputCarriesTotals ==
    /\ output.total = Len(vehicle_ids)
    /\ output.succeeded = success_count
    /\ output.failed = FailedList(failures)

OutputIsPreview ==
    /\ "itemsPreview" \in DOMAIN output
    /\ output.itemsPreview = ordered_results
    /\ output.itemsTruncated = TRUE
    /\ output.itemsPreviewCount = Len(results)
    /\ output.itemsTotal = success_count

Truncated == "itemsTruncated" \in DOMAIN output /\ output.itemsTruncated = TRUE

\* C8 (as claimed): the OUTPUT of a multi-identifier run carries total,
\* succeeded and failed, reports the ordered successes as items exactly when
\* all successes fit under the cap and otherwise as a truncated preview with
\* its counts, and is flagged truncated iff some success was not retained.
C8_Original ==
    MultiRunOutput =>
        /\ OutputCarriesTotals
        /\ ("items" \in DOMAIN output) <=> AllFitUnderCap
        /\ "items" \in DOMAIN output => output.items = ordered_results
        /\ ~AllFitUnderCap => OutputIsPreview
        /\ Truncated <=> Len(results) < success_count

\* C8 (amended): as claimed whenever the run has at least one success; with
\* no success the OUTPUT carries total, succeeded and failed only, neither
\* items nor a preview.
C8_ItemsOrPreview ==
    MultiRunOutput =>
        /\ OutputCarriesTotals
        /\ ("items" \in DOMAIN output) <=> (AllFitUnderCap /\ success_count >= 1)
        /\ "items" \in DOMAIN output =>
              output.items = ordered_results /\ Len(output.items) = success_count
        /\ ~AllFitUnderCap => OutputIsPreview
        /\ "itemsPreview" \in DOMAIN output => ~AllFitUnderCap
        /\ Truncated <=> Len(results) < success_count
        /\ success_count = 0 =>
              DOMAIN output = {"total", "succeeded", "failed"}

\* C8 witness: an OUTPUT flagged truncated, of a run with failures whose
\* successes exceed the cap.
C8_Witness ==
    /\ MultiRunOutput
    /\ Truncated
    /\ failures # <<>>
    /\ success_count > OUTPUT_ITEM_LIMIT

\* ------------------------------------------------------------------------
\* Properties of extract_preloaded_state (specification SpecExtract)
\* ------------------------------------------------------------------------
\* The bodies of the page's script elements that contain the marker, in
\* document order.
ScriptBlocks ==
    LET with == SelectSeq(page, LAMBDA e : e.tag = "script" /\ Find(e.body, marker) # 0)
    IN [k \in 1..Len(with) |-> with[k].body]

\* The blocks whose candidate parses as JSON.
ParsingBlocks == {k \in 1..Len(ScriptBlocks) : _extract_json(ScriptBlocks[k]).exc = ""}

FirstParsingBlock == CHOOSE k \in ParsingBlocks : \A j \in ParsingBlocks : k <= j

\* C10: extract_preloaded_state returns the state of the first script block,
\* in document order, whose candidate parses; it raises EncarParseError
\* exactly when no script block contains the marker or no candidate parses,
\* then with the message of the last candidate's failure.
C10_FirstParsingCandidate ==
    extract_result.exc # NotCalled.exc =>
        /\ extract_result.exc \in {"", "EncarParseError"}
        /\ extract_result.exc = "EncarParseError" <=> ParsingBlocks = {}
        /\ ParsingBlocks # {} =>
              extract_result.v = _extract_json(ScriptBlocks[FirstParsingBlock]).v
        /\ (ScriptBlocks # <<>> /\ ParsingBlocks = {}) =>
              extract_result.v = _extract_json(ScriptBlocks[Len(ScriptBlocks)]).v
        /\ ScriptBlocks = <<>> =>
              extract_result.v = <<"Preloaded state marker not found.">>

\* C10 witness: the first marker block fails to parse, the second parses
\* and its state is returned.
C10_Witness ==
    /\ extract_result.exc = ""
    /\ Len(ScriptBlocks) = 2
    /\ ParsingBlocks = {2}
    /\ extract_result.v = <<"k">>

\* ------------------------------------------------------------------------
\* Properties of validate_state and parse_vehicle (specification
\* SpecValidate)
\* ------------------------------------------------------------------------
\* The names of the fields a model declares.
FieldNames(model) == {ModelFields[model][i].name : i \in 1..Len(ModelFields[model])}

FieldType(model, name) ==
    (CHOOSE f \in {ModelFields[model][i] : i \in 1..Len(ModelFields[model])} :
        f.name = name).type

\* x without the keys its model does not declare, at every level.
RECURSIVE KnownOnly(_, _)
KnownOnly(model, x) ==
    IF ~IsDict(x) THEN x
    ELSE JDict([k \in DOMAIN x.d \cap FieldNames(model) |->
                   IF IsModel(FieldType(model, k))
                   THEN KnownOnly(FieldType(model, k), x.d[k])
                   ELSE x.d[k]])

\* The state without its unknown fields: only cars, in it only base, in it
\* only the fields BaseCarModel and its sub-models declare.
WithoutUnknown(st) ==
    LET only(x, key, inner) ==
            IF IsDict(x) /\ key \in DOMAIN x.d THEN JDict(key :> inner) ELSE EmptyDict
        cars == Get(st, "cars")
    IN  only(st, "cars",
             IF ~IsDict(cars) THEN cars
             ELSE only(cars, "base", KnownOnly("BaseCarModel", Get(cars, "base"))))

\* d holds no object under key.
NoObjectAt(d, key) == key \notin DOMAIN d.d \/ ~IsDict(d.d[key])

RequiredKeys == {"category", "advertisement", "spec", "manage", "condition"}

\* The state lacks cars, cars.base or one of the required sub-objects.
LacksRequired(st) ==
    \/ NoObjectAt(st, "cars")
    \/ NoObjectAt(st.d["cars"], "base")
    \/ \E k \in RequiredKeys : NoObjectAt(st.d["cars"].d["base"], k)

ValidateCalled == validate_result.exc # NotCalled.exc

ParseVehicleCalled == vehicle_result.exc # NotCalled.exc

\* C11: validate_state raises EncarParseError when the cars object, the
\* cars.base object or any one of category, advertisement, spec, manage,
\* condition is missing, whatever the rest of the state holds; unknown
\* extra fields never change its outcome (the state is accepted or rejected
\* exactly as the state without them is, with the same message); and
\* parse_vehicle returns no record for a state validate_state rejects: it
\* raises the same EncarParseError.
C11_RejectsIncompleteStates ==
    /\ ValidateCalled /\ LacksRequired(extracted.v)
           => validate_result.exc = "EncarParseError"
    /\ ValidateCalled
           => /\ validate_result.exc = validate_state(WithoutUnknown(extracted.v)).exc
              /\ validate_result.v = validate_state(WithoutUnknown(extracted.v)).v
    /\ ValidateCalled /\ ParseVehicleCalled /\ validate_result.exc # ""
           => /\ vehicle_result.exc = "EncarParseError"
              /\ vehicle_result.v = validate_result.v

\* C11 witness: a state with unknown fields whose cars.base holds the other
\* four sub-objects, each valid, and no condition; validate_state has
\* rejected it and parse_vehicle has raised.
C11_Witness ==
    /\ ValidateCalled /\ ParseVehicleCalled
    /\ extracted.exc = ""
    /\ ~NoObjectAt(extracted.v, "cars")
    /\ ~NoObjectAt(extracted.v.d["cars"], "base")
    /\ "extra1" \in DOMAIN extracted.v.d["cars"].d["base"].d
    /\ "condition" \notin DOMAIN extracted.v.d["cars"].d["base"].d
    /\ \A k \in RequiredKeys \ {"condition"} :
           /\ ~NoObjectAt(extracted.v.d["cars"].d["base"], k)
           /\ "extra1" \in DOMAIN extracted.v.d["cars"].d["base"].d[k].d
    /\ validate_result.exc = "EncarParseError"
    /\ validate_result.v = "cars.base validation failed: Field required @ condition"
    /\ vehicle_result.exc = "EncarParseError"

\* ------------------------------------------------------------------------
\* Properties of format_engine and the specifications (specification
\* SpecEngine)
\* ------------------------------------------------------------------------
SpecificationsBuilt == specifications_result.exc # NotCalled.exc

\* spec.get("displacement") of the spec object normalized
DisplacementIn == Get(spec_in, "displacement")

DisplacementIs(cc) == DisplacementIn.t = "int" /\ DisplacementIn.n = cc

\* The engine field is left out of the specifications.
EngineOmitted ==
    /\ engine_result.exc = "" /\ engine_result.v = JNull
    /\ specifications_result.exc = ""
    /\ "engine" \notin DOMAIN specifications_result.v

\* The engine field is the text s.
EngineIs(s) ==
    /\ engine_result.exc = "" /\ engine_result.v = JStr(s)
    /\ specifications_result.exc = ""
    /\ "engine" \in DOMAIN specifications_result.v
    /\ specifications_result.v["engine"] = JStr(s)

\* t tenths of a litre written with one decimal place, a decimal of zero
\* left out together with the point.
LitresText(t) ==
    ToString(t \div 10)
    \o (IF t % 10 = 0 THEN "" ELSE "." \o ToString(t % 10)) \o "L"

\* C12 (as claimed): a displacement of 1998 gives the engine "2.0L"; a
\* displacement of 0 or an absent one gives no engine field, and never
\* "0.0L".
C12_Original ==
    SpecificationsBuilt =>
        /\ DisplacementIs(1998) => EngineIs("2.0L")
        /\ DisplacementIs(0) \/ DisplacementIn.t = "NoneType"
               => EngineOmitted /\ ~EngineIs("0.0L")

\* C12 (amended): a displacement of 1998 gives the engine "2L": a positive
\* displacement is divided by 1000 and rounded to a nearest tenth, written
\* with one decimal place, and a decimal of zero is stripped with its point
\* before the L; a displacement of 0 or an absent one gives no engine field,
\* and no displacement gives "0.0L".
C12_EngineTrimmed ==
    SpecificationsBuilt =>
        /\ DisplacementIs(1998) => EngineIs("2L")
        /\ DisplacementIn.t = "int" /\ DisplacementIn.n > 0
               => \E t \in {DisplacementIn.n \div 100, DisplacementIn.n \div 100 + 1} :
                      /\ 100 * t - DisplacementIn.n \in (0 - 50)..50
                      /\ EngineIs(LitresText(t))
        /\ DisplacementIs(0) \/ DisplacementIn.t = "NoneType" => EngineOmitted
        /\ ~EngineIs("0.0L")

\* C12 witness: the specifications built for a displacement of 1998 hold the
\* engine "2L".
C12_Witness ==
    /\ SpecificationsBuilt
    /\ DisplacementIs(1998)
    /\ EngineIs("2L")

\* ------------------------------------------------------------------------
\* Properties of the workers' HTTP sessions (specification Spec)
\* ------------------------------------------------------------------------
\* The entries of the sessions list that hold a client.
Clients == {i \in DOMAIN sessions : sessions[i] # None}

\* C13: without an override path the dispatcher has created exactly one
\* client per worker, and with one it has created none; a client is used
\* only by the worker it belongs to; no client is closed twice, and once
\* the dispatcher has returned every client has been closed exactly once,
\* whether its worker's tasks failed or not.
C13_SessionsPerWorker ==
    /\ DOMAIN sessions = Workers
    /\ ~HasOverride(html_path)
           => Clients = Workers /\ Cardinality(Clients) = worker_count
    /\ HasOverride(html_path) => Clients = {}
    /\ \A i \in Clients :
           /\ sessions[i][1].users \subseteq {i}
           /\ sessions[i][1].closed <= 1
           /\ main_pc = "returned" => sessions[i][1].closed = 1
           /\ i \in Workers /\ wpc[i] \in {"exited", "crashed"}
                  <=> sessions[i][1].closed = 1

\* C13 witness: a batch without override path has returned with two workers,
\* each having fetched with its own client and closed it once, some task
\* having failed.
C13_Witness ==
    /\ main_pc = "returned"
    /\ html_path = None
    /\ worker_count = 2
    /\ failures # <<>>
    /\ \A w \in Workers :
           /\ sessions[w] # None
           /\ sessions[w][1].users = {w}
           /\ sessions[w][1].closed = 1
====
